---- MODULE Spec2Model ----
(***************************************************************************)
(* Basket / order workflow of the idp_db backend (src/main.py) over the    *)
(* tables of src/models.py.  Every HTTP handler runs in its own SQLAlchemy *)
(* session (src/database.py: autocommit=False, autoflush=False, default    *)
(* expire_on_commit) against a store whose default isolation is READ       *)
(* COMMITTED: a SELECT sees the rows committed at the time it runs, a      *)
(* flush writes absolute column values, and nothing is visible to other    *)
(* sessions before db.commit().  create_order and cancel_order are split   *)
(* at their statements, and the steps of different requests interleave;    *)
(* the basket handlers and the reads (a few SELECTs and at most one        *)
(* commit) are one step each.  Spec is the workflow of users that are      *)
(* authenticated and registered; BasketSpec, ConcurrentAddSpec,            *)
(* SingleOrderSpec and AuthSpec take a part of the handlers with wider     *)
(* inputs: zero and negative quantities, POST /basket/ split at its        *)
(* statements, an order cancelled twice, the bearer token and the users    *)
(* table (src/auth.py).                                                    *)
(***************************************************************************)
EXTENDS Integers, Sequences, FiniteSets, TLC

\* ---------------------------------------------------------------- bounds
NumUsers == 2
NumProducts == 2
NumRequests == 2
MaxQuantity == 1
MaxBasketItemId == 2
MaxOrders == 2
MaxCancels == 1
\* the basket handlers on their own take quantities from
\* -MaxNegativeQuantity .. MaxBasketQuantity
MaxBasketQuantity == 2
\* cancel_order calls where one order is cancelled again
MaxRepeatedCancels == 2
MaxNegativeQuantity == 1

Users == 1..NumUsers
Products == 1..NumProducts
Requests == 1..NumRequests
\* BasketItemCreateRequest.quantity and the quantity parameter of
\* update_basket_item are plain ints: zero and negative values are accepted.
Quantities == 1..MaxQuantity
BasketQuantities == (0 - MaxNegativeQuantity)..MaxBasketQuantity
OrderIds == 1..MaxOrders

\* ------------------------------------------------------------- the tables
VARIABLES
    stock,                \* products.stock, by product id
    basket_items,         \* rows of basket_items
    next_basket_item_id,  \* the serial behind basket_items.id
    orders,               \* rows of orders
    order_items,          \* rows of order_items
    sess,                 \* per request in flight: the handler's locals and session
    reply,                \* the response of the handler that finished last
    cancel_count,         \* history: successful cancel_order calls per order id
    users,                \* rows of users
    credential            \* the identity service's answer to the bearer token
                          \* the client presents (POST /verify-token)

vars == <<stock, basket_items, next_basket_item_id, orders, order_items,
          sess, reply, cancel_count, users, credential>>

\* the rows of the store a request can change
db == <<stock, basket_items, orders, order_items>>

\* products.price is Numeric(10, 2): an exact number of cents.  No handler
\* changes a price.
price == [p \in Products |-> IF p = 1 THEN 1999 ELSE 500]

\* products.stock when the shop opens.
InitStock == [p \in Products |-> p]

\* --------------------------------------------------------------- identity
\* the row register_user INSERTs for user u: the id the identity service gave
\* and the email of the request (an address of its own for every user,
\* register_user refusing an email that is taken)
RegisteredUser(u) == [id |-> u, name |-> "registered", email |-> u]

\* the email every placeholder row carries: "user@example.com"
PlaceholderEmail == 0

\* the answers of the identity service to POST /verify-token: a status code
\* and the user_id of the JSON body (0: the body has none)
AuthResponses == [status_code : {200, 401}, user_id : Users \cup {0}]

NoCredential == [status_code |-> 401, user_id |-> 0]

\* verify_token trusting the user_id of any answer
verify_token_any_status(response) == response.user_id

\* auth.py 109-123 (verify_token): the user_id of a 200 answer, None (0) for
\* any other status and for a 200 answer without a user_id.
verify_token(response) ==
    IF response.status_code # 200 THEN 0 ELSE response.user_id

\* ----------------------------------------------------------------- floats
\* create_order totals in binary floating point.  A float is modelled in
\* units of 1/FloatUnit cent.  float(Decimal) is exact only for the prices
\* that are a multiple of a quarter (5.00); any other price (19.99) becomes
\* the nearest double, here one unit below the price.
FloatUnit == 100

ToFloat(cents) == IF cents % 25 = 0 THEN cents * FloatUnit ELSE cents * FloatUnit - 1

\* Storing a float in the Numeric(10, 2) column orders.total rounds it to
\* the nearest cent, ties away from zero.
RoundToCents(x) ==
    IF x >= 0 THEN (x + FloatUnit \div 2) \div FloatUnit
    ELSE 0 - (((0 - x) + FloatUnit \div 2) \div FloatUnit)

\* ---------------------------------------------------------------- queries
RECURSIVE RowsById(_)
\* .all() on a set of rows: the rows in id order.
RowsById(rows) ==
    IF rows = {} THEN <<>>
    ELSE LET first == CHOOSE r \in rows : \A o \in rows : r.id <= o.id
         IN <<first>> \o RowsById(rows \ {first})

\* the basket query without its filter on the caller
UserBasket_everyone(u) == basket_items

\* db.query(BasketItem).filter(BasketItem.user_id == user_id)
UserBasket(u) == {b \in basket_items : b.user_id = u}

\* db.query(BasketItem).filter(user_id == .., product_id == ..)
BasketOf(u, p) == {b \in basket_items : b.user_id = u /\ b.product_id = p}

\* db.query(BasketItem).filter(BasketItem.id == id, BasketItem.user_id == user_id)
OwnedBasketItem(u, id) == {b \in basket_items : b.id = id /\ b.user_id = u}

\* get_orders without its filter on the caller
UserOrders_unfiltered(u) == orders

\* db.query(Order).filter(Order.user_id == user_id)
UserOrders(u) == {o \in orders : o.user_id = u}

\* the order lookup without its filter on the caller
OwnedOrder_any_user(u, oid) == {o \in orders : o.id = oid}

\* db.query(Order).filter(Order.id == order_id, Order.user_id == user_id)
OwnedOrder(u, oid) == {o \in orders : o.id = oid /\ o.user_id = u}

\* db.query(OrderItem).filter(OrderItem.order_id == order_id)
ItemsOfOrder(oid) == {oi \in order_items : oi.order_id = oid}

\* --------------------------------------------------------------- sessions
NoProducts == [p \in {} |-> 0]

\* item is the body of a POST /basket/ in flight; validated is history: the
\* basket items as create_order's validation loop saw them.
Idle == [op |-> "none", pc |-> "idle", user_id |-> 0, basket_items |-> <<>>,
         i |-> 0, total |-> 0, order_id |-> 0, order_items |-> <<>>,
         products |-> NoProducts, new_items |-> <<>>,
         item |-> [product_id |-> 0, quantity |-> 0], validated |-> <<>>]

\* a response, with the caller and what the request asked for: arg is the id
\* in the request (the order id or basket item id of the path, the product
\* id of a POST /basket/), quantity the quantity it carried
BasketReply(op, u, id, q, status, body) ==
    [op |-> op, user_id |-> u, arg |-> id, quantity |-> q,
     status |-> status, body |-> body]

Reply(op, u, status, body) == BasketReply(op, u, 0, 0, status, body)

OrderReply(op, u, oid, status, body) == BasketReply(op, u, oid, 0, status, body)

\* The Product object for p in a session's identity map after a
\* db.query(Product)...first(): the row as stored, unless the object is
\* already loaded (and maybe changed, autoflush being off) in this session.
LoadProduct(loaded, p) ==
    IF p \in DOMAIN loaded THEN loaded
    ELSE [q \in DOMAIN loaded \cup {p} |-> IF q = p THEN stock[p] ELSE loaded[q]]

\* The objects of a session after db.commit(): their attributes are dropped,
\* only the primary key stays.
Expire(items) == [k \in 1..Len(items) |-> [id |-> items[k].id]]

SetStock(loaded, p, v) == [loaded EXCEPT ![p] = v]

\* ----------------------------------------------------------------- basket
\* POST /basket/ (add_to_basket): one SELECT of the product, one of the
\* existing item, one commit.
add_to_basket(u, p, q) ==
    /\ UNCHANGED <<users, credential>>
    /\ IF p \notin Products
       THEN /\ reply' = BasketReply("add_to_basket", u, p, q, "ProductNotFound", {})
            /\ UNCHANGED <<basket_items, next_basket_item_id>>
       ELSE IF stock[p] < q
       THEN /\ reply' = BasketReply("add_to_basket", u, p, q, "InsufficientStock", {})
            /\ UNCHANGED <<basket_items, next_basket_item_id>>
       ELSE IF BasketOf(u, p) # {}
       THEN LET existing_item == RowsById(BasketOf(u, p))[1]
                merged == [existing_item EXCEPT !.quantity = @ + q]
            IN /\ merged.quantity \in Quantities
               /\ basket_items' = (basket_items \ {existing_item}) \cup {merged}
               /\ UNCHANGED next_basket_item_id
               /\ reply' = BasketReply("add_to_basket", u, p, q, "ok", {})
       ELSE /\ next_basket_item_id <= MaxBasketItemId
            /\ basket_items' = basket_items \cup
                   {[id |-> next_basket_item_id, user_id |-> u,
                     product_id |-> p, quantity |-> q]}
            /\ next_basket_item_id' = next_basket_item_id + 1
            /\ reply' = BasketReply("add_to_basket", u, p, q, "ok", {})
    /\ UNCHANGED <<stock, orders, order_items, sess, cancel_count>>

\* update_basket_item looking the item up by its id alone
update_basket_item_any_user(u, id, q) ==
    /\ UNCHANGED <<users, credential>>
    /\ IF {b \in basket_items : b.id = id} = {}
       THEN /\ reply' = BasketReply("update_basket_item", u, id, q, "NotFound", {})
            /\ UNCHANGED basket_items
       ELSE LET basket_item == CHOOSE b \in basket_items : b.id = id
            IN IF stock[basket_item.product_id] < q
               THEN /\ reply' = BasketReply("update_basket_item", u, id, q,
                                            "InsufficientStock", {})
                    /\ UNCHANGED basket_items
               ELSE /\ basket_items' = (basket_items \ {basket_item}) \cup
                           {[basket_item EXCEPT !.quantity = q]}
                    /\ reply' = BasketReply("update_basket_item", u, id, q, "ok", {})
    /\ UNCHANGED <<stock, next_basket_item_id, orders, order_items, sess, cancel_count>>

\* PUT /basket/{basket_item_id} (update_basket_item)
update_basket_item(u, id, q) ==
    /\ UNCHANGED <<users, credential>>
    /\ IF OwnedBasketItem(u, id) = {}
       THEN /\ reply' = BasketReply("update_basket_item", u, id, q, "NotFound", {})
            /\ UNCHANGED basket_items
       ELSE LET basket_item == CHOOSE b \in OwnedBasketItem(u, id) : TRUE
            IN IF stock[basket_item.product_id] < q
               THEN /\ reply' = BasketReply("update_basket_item", u, id, q, "InsufficientStock", {})
                    /\ UNCHANGED basket_items
               ELSE /\ basket_items' = (basket_items \ {basket_item}) \cup
                           {[basket_item EXCEPT !.quantity = q]}
                    /\ reply' = BasketReply("update_basket_item", u, id, q, "ok", {})
    /\ UNCHANGED <<stock, next_basket_item_id, orders, order_items, sess, cancel_count>>

\* DELETE /basket/{basket_item_id} (remove_basket_item)
remove_basket_item(u, id) ==
    /\ UNCHANGED <<users, credential>>
    /\ IF OwnedBasketItem(u, id) = {}
       THEN /\ reply' = BasketReply("remove_basket_item", u, id, 0, "NotFound", {})
            /\ UNCHANGED basket_items
       ELSE /\ basket_items' = basket_items \ OwnedBasketItem(u, id)
            /\ reply' = BasketReply("remove_basket_item", u, id, 0, "ok", {})
    /\ UNCHANGED <<stock, next_basket_item_id, orders, order_items, sess, cancel_count>>

\* DELETE /basket/ (clear_basket): one bulk DELETE of the user's rows.
clear_basket(u) ==
    /\ UNCHANGED <<users, credential>>
    /\ basket_items' = basket_items \ UserBasket(u)
    /\ reply' = Reply("clear_basket", u, "ok", {})
    /\ UNCHANGED <<stock, next_basket_item_id, orders, order_items, sess, cancel_count>>

\* POST /basket/ at its statements, for requests that interleave.
AddsInFlight == {r \in Requests : sess[r].op = "add_to_basket"}

\* main.py 171-184: SELECT the product (404 when there is none), check the
\* stock against the quantity of the request, SELECT the user's item of the
\* product; .first() takes any of the rows that match.
add_to_basket_read(r, u, p, q) ==
    /\ UNCHANGED <<users, credential>>
    /\ sess[r].pc = "idle"
    /\ IF p \notin Products
       THEN /\ reply' = BasketReply("add_to_basket", u, p, q, "ProductNotFound", {})
            /\ UNCHANGED sess
       ELSE IF stock[p] < q
       THEN /\ reply' = BasketReply("add_to_basket", u, p, q, "InsufficientStock", {})
            /\ UNCHANGED sess
       ELSE /\ \E found \in IF BasketOf(u, p) = {} THEN {<<>>}
                             ELSE {<<b>> : b \in BasketOf(u, p)} :
                   /\ IF found = <<>>
                      THEN next_basket_item_id + Cardinality(AddsInFlight)
                               <= MaxBasketItemId
                      ELSE found[1].quantity + q \in BasketQuantities
                   /\ sess' = [sess EXCEPT ![r] =
                          [Idle EXCEPT !.op = "add_to_basket", !.pc = "commit",
                                       !.user_id = u,
                                       !.item = [product_id |-> p, quantity |-> q],
                                       !.basket_items = found]]
            /\ UNCHANGED reply
    /\ UNCHANGED <<stock, basket_items, next_basket_item_id, orders, order_items,
                   cancel_count>>

\* main.py 186-202: existing_item.quantity += item.quantity is flushed as an
\* UPDATE of the row to the quantity loaded plus the quantity of the request
\* (StaleDataError, a 500, when the row is gone); with no existing item a new
\* row is INSERTed.  Then the commit.
add_to_basket_commit(r) ==
    /\ UNCHANGED <<users, credential>>
    /\ sess[r].op = "add_to_basket" /\ sess[r].pc = "commit"
    /\ LET s == sess[r]
           item == s.item
       IN IF s.basket_items # <<>>
          THEN LET existing_item == s.basket_items[1]
               IN IF ~ \E b \in basket_items : b.id = existing_item.id
                  THEN /\ reply' = BasketReply("add_to_basket", s.user_id,
                                       item.product_id, item.quantity, "Internal", {})
                       /\ UNCHANGED <<basket_items, next_basket_item_id>>
                  ELSE /\ basket_items' =
                              {IF b.id = existing_item.id
                               THEN [b EXCEPT !.quantity =
                                         existing_item.quantity + item.quantity]
                               ELSE b : b \in basket_items}
                       /\ UNCHANGED next_basket_item_id
                       /\ reply' = BasketReply("add_to_basket", s.user_id,
                                       item.product_id, item.quantity, "ok", {})
          ELSE /\ basket_items' = basket_items \cup
                      {[id |-> next_basket_item_id, user_id |-> s.user_id,
                        product_id |-> item.product_id, quantity |-> item.quantity]}
               /\ next_basket_item_id' = next_basket_item_id + 1
               /\ reply' = BasketReply("add_to_basket", s.user_id,
                               item.product_id, item.quantity, "ok", {})
    /\ sess' = [sess EXCEPT ![r] = Idle]
    /\ UNCHANGED <<stock, orders, order_items, cancel_count>>

\* ------------------------------------------------------------------ users
\* the client presents another bearer token; response is what the identity
\* service answers for it
present_token(response) ==
    /\ credential' = response
    /\ UNCHANGED <<stock, basket_items, next_basket_item_id, orders, order_items,
                   sess, reply, cancel_count, users>>

\* auth.py 64-81 (get_current_user_id), the dependency of every endpoint,
\* returns u: verify_token gave that user_id.  It does not touch the users
\* table.
get_current_user_id(u) == u # 0 /\ u = verify_token(credential)

\* auth.py 69-79: get_current_user_id raises 401 when verify_token gives
\* None; the request ends before the handler of the endpoint runs.
credentials_exception(op) ==
    /\ verify_token(credential) = 0
    /\ reply' = Reply(op, 0, "Unauthenticated", {})
    /\ UNCHANGED <<stock, basket_items, next_basket_item_id, orders,
                   order_items, sess, cancel_count, users, credential>>

\* GET /users/me (read_users_me): the caller's row, or a stand-in when the
\* users table has none.
read_users_me(u) ==
    /\ reply' = Reply("read_users_me", u, "ok",
                      IF \E user \in users : user.id = u
                      THEN {user \in users : user.id = u}
                      ELSE {[id |-> u, name |-> "Unknown User"]})
    /\ UNCHANGED <<stock, basket_items, next_basket_item_id, orders, order_items,
                   sess, cancel_count, users, credential>>

\* auth.py 83-107 (get_current_user), after its get_current_user_id: the
\* caller's row; when there is none, INSERT one with the name "User" and the
\* email "user@example.com".  users.email is unique (models.py 10): the
\* commit raises IntegrityError, a 500, when a row has that email already.
get_current_user(u) ==
    /\ IF \E user \in users : user.id = u
       THEN /\ reply' = Reply("get_current_user", u, "ok",
                              {user \in users : user.id = u})
            /\ UNCHANGED users
       ELSE IF \E user \in users : user.email = PlaceholderEmail
       THEN /\ reply' = Reply("get_current_user", u, "Internal", {})
            /\ UNCHANGED users
       ELSE /\ users' = users \cup
                   {[id |-> u, name |-> "User", email |-> PlaceholderEmail]}
            /\ reply' = Reply("get_current_user", u, "ok",
                              {[id |-> u, name |-> "User", email |-> PlaceholderEmail]})
    /\ UNCHANGED <<stock, basket_items, next_basket_item_id, orders, order_items,
                   sess, cancel_count, credential>>

\* ----------------------------------------------------------- create_order
\* the create_order requests that have not inserted their order yet (they
\* count against MaxOrders)
CreatesInFlight == {r \in Requests : sess[r].op = "create_order" /\ sess[r].order_id = 0}

\* create_order without its check for an empty basket
create_order_load_unchecked(r, u) ==
    /\ UNCHANGED <<users, credential>>
    /\ sess[r].pc = "idle"
    /\ Cardinality(orders) + Cardinality(CreatesInFlight) < MaxOrders
    /\ sess' = [sess EXCEPT ![r] =
           [Idle EXCEPT !.op = "create_order",
                        !.pc = IF UserBasket(u) = {} THEN "insert" ELSE "validate",
                        !.user_id = u, !.i = 1,
                        !.basket_items = RowsById(UserBasket(u))]]
    /\ UNCHANGED <<stock, basket_items, next_basket_item_id, orders, order_items,
                   reply, cancel_count>>

\* main.py 322-325: load the basket; 400 when it is empty.
create_order_load(r, u) ==
    /\ UNCHANGED <<users, credential>>
    /\ sess[r].pc = "idle"
    /\ Cardinality(orders) + Cardinality(CreatesInFlight) < MaxOrders
    /\ IF UserBasket(u) = {}
       THEN /\ reply' = Reply("create_order", u, "EmptyBasket", {})
            /\ UNCHANGED sess
       ELSE /\ sess' = [sess EXCEPT ![r] =
                   [Idle EXCEPT !.op = "create_order", !.pc = "validate",
                                !.user_id = u, !.i = 1,
                                !.basket_items = RowsById(UserBasket(u))]]
            /\ UNCHANGED reply
    /\ UNCHANGED <<stock, basket_items, next_basket_item_id, orders, order_items,
                   cancel_count>>

\* the validation loop taking the stock as it checks it, so that a later
\* item's failure comes after a write
create_order_validate_reserving(r) ==
    /\ UNCHANGED <<users, credential>>
    /\ sess[r].op = "create_order" /\ sess[r].pc = "validate"
    /\ LET s == sess[r]
           item == s.basket_items[s.i]
       IN IF stock[item.product_id] < item.quantity
          THEN /\ reply' = Reply("create_order", s.user_id, "InsufficientStock", {})
               /\ sess' = [sess EXCEPT ![r] = Idle]
               /\ UNCHANGED stock
          ELSE /\ stock' = [stock EXCEPT ![item.product_id] = @ - item.quantity]
               /\ sess' = [sess EXCEPT ![r] =
                      [s EXCEPT !.total = @ + ToFloat(price[item.product_id])
                                              * item.quantity,
                                !.i = @ + 1,
                                !.pc = IF s.i = Len(s.basket_items)
                                       THEN "insert" ELSE "validate"]]
               /\ UNCHANGED reply
    /\ UNCHANGED <<basket_items, next_basket_item_id, orders, order_items,
                   cancel_count>>

\* main.py 329-337: one iteration of the validation loop.
create_order_validate(r) ==
    /\ UNCHANGED <<users, credential>>
    /\ sess[r].op = "create_order" /\ sess[r].pc = "validate"
    /\ LET s == sess[r]
           item == s.basket_items[s.i]
           loaded == LoadProduct(s.products, item.product_id)
       IN IF item.product_id \notin Products
          THEN /\ reply' = Reply("create_order", s.user_id, "ProductNotFound", {})
               /\ sess' = [sess EXCEPT ![r] = Idle]
          ELSE IF loaded[item.product_id] < item.quantity
          THEN /\ reply' = Reply("create_order", s.user_id, "InsufficientStock", {})
               /\ sess' = [sess EXCEPT ![r] = Idle]
          ELSE /\ sess' = [sess EXCEPT ![r] =
                      [s EXCEPT !.products = loaded,
                                !.total = @ + ToFloat(price[item.product_id])
                                              * item.quantity,
                                !.i = @ + 1,
                                !.pc = IF s.i = Len(s.basket_items)
                                       THEN "insert" ELSE "validate"]]
               /\ UNCHANGED reply
    /\ UNCHANGED <<stock, basket_items, next_basket_item_id, orders, order_items,
                   cancel_count>>

\* main.py 340-346: INSERT the order and commit it.  The commit expires every
\* object of the session: basket items and products are read again on their
\* next use.
create_order_insert(r) ==
    /\ UNCHANGED <<users, credential>>
    /\ sess[r].op = "create_order" /\ sess[r].pc = "insert"
    /\ LET s == sess[r]
           id == Cardinality(orders) + 1
       IN /\ orders' = orders \cup
                 {[id |-> id, user_id |-> s.user_id, total |-> RoundToCents(s.total)]}
          /\ sess' = [sess EXCEPT ![r] =
                 [s EXCEPT !.pc = "convert", !.order_id = id, !.i = 1,
                           !.total = 0, !.products = NoProducts,
                           !.validated = s.basket_items,
                           !.basket_items = Expire(s.basket_items)]]
    /\ UNCHANGED <<stock, basket_items, next_basket_item_id, order_items, reply,
                   cancel_count>>

\* main.py 349-365: one iteration of the commit loop.  item.product_id
\* refreshes the expired basket item from its row (ObjectDeletedError, a 500,
\* when the row is gone: the session is closed and its pending changes are
\* dropped); the product is read again; the new order item, the new stock and
\* the deletion stay in the session until the commit.
create_order_convert(r) ==
    /\ UNCHANGED <<users, credential>>
    /\ sess[r].op = "create_order" /\ sess[r].pc = "convert"
    /\ LET s == sess[r]
           rows == {b \in basket_items : b.id = s.basket_items[s.i].id}
       IN IF rows = {}
          THEN /\ reply' = Reply("create_order", s.user_id, "Internal", {})
               /\ sess' = [sess EXCEPT ![r] = Idle]
          ELSE LET item == CHOOSE b \in rows : TRUE
                   loaded == LoadProduct(s.products, item.product_id)
                   order_item == [order_id |-> s.order_id,
                                  product_id |-> item.product_id,
                                  quantity |-> item.quantity,
                                  price_at_purchase |-> price[item.product_id]]
               IN /\ sess' = [sess EXCEPT ![r] =
                         [s EXCEPT !.products = SetStock(loaded, item.product_id,
                                        loaded[item.product_id] - item.quantity),
                                   !.new_items = Append(@, order_item),
                                   !.i = @ + 1,
                                   !.pc = IF s.i = Len(s.basket_items)
                                          THEN "commit" ELSE "convert"]]
                  /\ UNCHANGED reply
    /\ UNCHANGED <<stock, basket_items, next_basket_item_id, orders, order_items,
                   cancel_count>>

\* the rows a flush INSERTs for the pending order items, ids from the serial
NewOrderItems(new_items) ==
    {[id |-> Cardinality(order_items) + k] @@ new_items[k] : k \in 1..Len(new_items)}

\* the UPDATEs a flush sends for the changed products: absolute values
FlushStock(loaded) ==
    [p \in Products |-> IF p \in DOMAIN loaded THEN loaded[p] ELSE stock[p]]

\* main.py 367-368: flush (INSERT order items, UPDATE products, DELETE the
\* basket items by id) and commit.
create_order_commit(r) ==
    /\ UNCHANGED <<users, credential>>
    /\ sess[r].op = "create_order" /\ sess[r].pc = "commit"
    /\ LET s == sess[r]
           ids == {s.basket_items[k].id : k \in 1..Len(s.basket_items)}
       IN /\ order_items' = order_items \cup NewOrderItems(s.new_items)
          /\ stock' = FlushStock(s.products)
          /\ basket_items' = {b \in basket_items : b.id \notin ids}
          /\ reply' = Reply("create_order", s.user_id, "ok", {})
          /\ sess' = [sess EXCEPT ![r] = Idle]
    /\ UNCHANGED <<next_basket_item_id, orders, cancel_count>>


\* ----------------------------------------------------------- cancel_order
RECURSIVE TotalCancels(_)
TotalCancels(ids) ==
    IF ids = {} THEN 0
    ELSE LET o == CHOOSE x \in ids : TRUE
         IN cancel_count[o] + TotalCancels(ids \ {o})

CancelsInFlight == {r \in Requests : sess[r].op = "cancel_order"}

\* fewer than n cancel_order requests have been accepted
CancelsWithin(n) == TotalCancels(OrderIds) + Cardinality(CancelsInFlight) < n

\* main.py 380-389: look the order up by (order_id, user_id), 404 when there
\* is none; load its order items.
cancel_order_lookup(r, u, oid) ==
    /\ UNCHANGED <<users, credential>>
    /\ sess[r].pc = "idle"
    /\ IF OwnedOrder(u, oid) = {}
       THEN /\ reply' = OrderReply("cancel_order", u, oid, "NotFound", {})
            /\ UNCHANGED sess
       ELSE /\ sess' = [sess EXCEPT ![r] =
                   [Idle EXCEPT !.op = "cancel_order", !.user_id = u,
                                !.order_id = oid, !.i = 1,
                                !.order_items = RowsById(ItemsOfOrder(oid)),
                                !.pc = IF ItemsOfOrder(oid) = {}
                                       THEN "commit" ELSE "restore"]]
            /\ UNCHANGED reply
    /\ UNCHANGED <<stock, basket_items, next_basket_item_id, orders, order_items,
                   cancel_count>>

\* main.py 390-393: one iteration of the restore loop; the new stock stays
\* in the session until the commit.
cancel_order_restore(r) ==
    /\ UNCHANGED <<users, credential>>
    /\ sess[r].op = "cancel_order" /\ sess[r].pc = "restore"
    /\ LET s == sess[r]
           item == s.order_items[s.i]
           loaded == LoadProduct(s.products, item.product_id)
       IN sess' = [sess EXCEPT ![r] =
              [s EXCEPT !.products =
                            IF item.product_id \in Products
                            THEN SetStock(loaded, item.product_id,
                                          loaded[item.product_id] + item.quantity)
                            ELSE s.products,
                        !.i = @ + 1,
                        !.pc = IF s.i = Len(s.order_items)
                               THEN "commit" ELSE "restore"]]
    /\ UNCHANGED <<stock, basket_items, next_basket_item_id, orders, order_items,
                   reply, cancel_count>>

\* cancel_order deleting what it cancels
cancel_order_commit_deleting(r) ==
    /\ UNCHANGED <<users, credential>>
    /\ sess[r].op = "cancel_order" /\ sess[r].pc = "commit"
    /\ LET s == sess[r]
       IN /\ stock' = FlushStock(s.products)
          /\ order_items' = {oi \in order_items : oi.order_id # s.order_id}
          /\ cancel_count' = [cancel_count EXCEPT ![s.order_id] = @ + 1]
          /\ reply' = OrderReply("cancel_order", s.user_id, s.order_id, "ok", {})
          /\ sess' = [sess EXCEPT ![r] = Idle]
    /\ UNCHANGED <<basket_items, next_basket_item_id, orders>>

\* main.py 395-397: flush the changed products and commit.
cancel_order_commit(r) ==
    /\ UNCHANGED <<users, credential>>
    /\ sess[r].op = "cancel_order" /\ sess[r].pc = "commit"
    /\ LET s == sess[r]
       IN /\ stock' = FlushStock(s.products)
          /\ cancel_count' = [cancel_count EXCEPT ![s.order_id] = @ + 1]
          /\ reply' = OrderReply("cancel_order", s.user_id, s.order_id, "ok", {})
          /\ sess' = [sess EXCEPT ![r] = Idle]
    /\ UNCHANGED <<basket_items, next_basket_item_id, orders, order_items>>

\* ------------------------------------------------------------------ reads
\* GET /orders/ (get_orders)
get_orders(u) ==
    /\ UNCHANGED <<users, credential>>
    /\ reply' = Reply("get_orders", u, "ok", UserOrders(u))
    /\ UNCHANGED <<stock, basket_items, next_basket_item_id, orders, order_items,
                   sess, cancel_count>>

\* GET /orders/{order_id} (get_order)
get_order(u, oid) ==
    /\ UNCHANGED <<users, credential>>
    /\ reply' = IF OwnedOrder(u, oid) = {}
                THEN OrderReply("get_order", u, oid, "NotFound", {})
                ELSE OrderReply("get_order", u, oid, "ok", OwnedOrder(u, oid))
    /\ UNCHANGED <<stock, basket_items, next_basket_item_id, orders, order_items,
                   sess, cancel_count>>


Init ==
    /\ stock = InitStock
    /\ basket_items = {}
    /\ next_basket_item_id = 1
    /\ orders = {}
    /\ order_items = {}
    /\ sess = [r \in Requests |-> Idle]
    /\ reply = Reply("none", 0, "none", {})
    /\ cancel_count = [o \in OrderIds |-> 0]
    /\ users = {RegisteredUser(u) : u \in Users}
    /\ credential = NoCredential

Next ==
    \/ \E u \in Users, p \in Products \cup {0}, q \in Quantities : add_to_basket(u, p, q)
    \/ \E u \in Users, id \in 1..MaxBasketItemId, q \in Quantities :
           update_basket_item(u, id, q)
    \/ \E u \in Users, id \in 1..MaxBasketItemId : remove_basket_item(u, id)
    \/ \E u \in Users : clear_basket(u)
    \/ \E r \in Requests, u \in Users : create_order_load(r, u)
    \/ \E r \in Requests : create_order_validate(r)
    \/ \E r \in Requests : create_order_insert(r)
    \/ \E r \in Requests : create_order_convert(r)
    \/ \E r \in Requests : create_order_commit(r)
    \/ \E r \in Requests, u \in Users, oid \in OrderIds :
           CancelsWithin(MaxCancels) /\ cancel_order_lookup(r, u, oid)
    \/ \E r \in Requests : cancel_order_restore(r)
    \/ \E r \in Requests : cancel_order_commit(r)
    \/ \E u \in Users : get_orders(u)
    \/ \E u \in Users, oid \in OrderIds : get_order(u, oid)

Spec == Init /\ [][Next]_vars

\* Requests behind their authentication, for users with and without a row
\* in the users table (a user registered with the identity service alone has
\* none); create_order and cancel_order one request at a time.
AuthInit ==
    /\ stock = InitStock
    /\ basket_items = {}
    /\ next_basket_item_id = 1
    /\ orders = {}
    /\ order_items = {}
    /\ sess = [r \in Requests |-> Idle]
    /\ reply = Reply("none", 0, "none", {})
    /\ cancel_count = [o \in OrderIds |-> 0]
    /\ users \in SUBSET {RegisteredUser(u) : u \in Users}
    /\ credential = NoCredential

\* the endpoints a client calls here
Endpoints == {"read_users_me", "get_current_user", "add_to_basket",
              "clear_basket", "create_order", "cancel_order"}

AuthNext ==
    \/ \E response \in AuthResponses : present_token(response)
    \/ \E op \in Endpoints : credentials_exception(op)
    \/ \E u \in Users : get_current_user_id(u) /\ read_users_me(u)
    \/ \E u \in Users : get_current_user_id(u) /\ get_current_user(u)
    \/ \E u \in Users, p \in Products, q \in Quantities :
           get_current_user_id(u) /\ add_to_basket(u, p, q)
    \/ \E u \in Users : get_current_user_id(u) /\ clear_basket(u)
    \/ \E u \in Users : get_current_user_id(u) /\ create_order_load(1, u)
    \/ create_order_validate(1)
    \/ create_order_insert(1)
    \/ create_order_convert(1)
    \/ create_order_commit(1)
    \/ \E u \in Users, oid \in OrderIds :
           /\ get_current_user_id(u)
           /\ CancelsWithin(MaxCancels)
           /\ cancel_order_lookup(1, u, oid)
    \/ cancel_order_restore(1)
    \/ cancel_order_commit(1)

AuthSpec == AuthInit /\ [][AuthNext]_vars

\* create_order and cancel_order, one request at a time, an order cancelled
\* more than once, with the basket handlers in between and quantities up to
\* MaxBasketQuantity.
SingleOrderNext ==
    \/ \E u \in Users, p \in Products, q \in Quantities : add_to_basket(u, p, q)
    \/ \E u \in Users, id \in 1..MaxBasketItemId, q \in 1..MaxBasketQuantity :
           update_basket_item(u, id, q)
    \/ \E u \in Users, id \in 1..MaxBasketItemId : remove_basket_item(u, id)
    \/ \E u \in Users : create_order_load(1, u)
    \/ create_order_validate(1)
    \/ create_order_insert(1)
    \/ create_order_convert(1)
    \/ create_order_commit(1)
    \/ \E u \in Users, oid \in OrderIds :
           CancelsWithin(MaxRepeatedCancels) /\ cancel_order_lookup(1, u, oid)
    \/ cancel_order_restore(1)
    \/ cancel_order_commit(1)

SingleOrderSpec == Init /\ [][SingleOrderNext]_vars

\* The basket handlers on their own, one request at a time, with zero,
\* negative and larger quantities.
BasketNext ==
    \/ \E u \in Users, p \in Products \cup {0}, q \in BasketQuantities :
           add_to_basket_read(1, u, p, q)
    \/ add_to_basket_commit(1)
    \/ \E u \in Users, id \in 1..MaxBasketItemId, q \in BasketQuantities :
           update_basket_item(u, id, q)
    \/ \E u \in Users, id \in 1..MaxBasketItemId : remove_basket_item(u, id)
    \/ \E u \in Users : clear_basket(u)

BasketSpec == Init /\ [][BasketNext]_vars

\* POST /basket/ requests that interleave at their statements.
ConcurrentAddNext ==
    \/ \E r \in Requests, u \in Users, p \in Products, q \in Quantities :
           add_to_basket_read(r, u, p, q)
    \/ \E r \in Requests : add_to_basket_commit(r)
    \/ \E u \in Users, id \in 1..MaxBasketItemId : remove_basket_item(u, id)

ConcurrentAddSpec == Init /\ [][ConcurrentAddNext]_vars

\* ================================================================== claims
RECURSIVE UnitsOf(_, _)
\* the units of product p in a set of order item rows
UnitsOf(rows, p) ==
    IF rows = {} THEN 0
    ELSE LET row == CHOOSE x \in rows : TRUE
         IN (IF row.product_id = p THEN row.quantity ELSE 0)
                + UnitsOf(rows \ {row}, p)

RECURSIVE ValueOf(_)
\* sum of quantity x price_at_purchase over a set of order item rows, in cents
ValueOf(rows) ==
    IF rows = {} THEN 0
    ELSE LET row == CHOOSE x \in rows : TRUE
         IN row.quantity * row.price_at_purchase + ValueOf(rows \ {row})

\* a request is between the two commits of create_order for order oid
Converting(oid) ==
    \E r \in Requests : sess[r].op = "create_order" /\ sess[r].order_id = oid

\* C1: starting from non-negative stock, every product's stock stays >= 0
\* under any basket, createOrder and cancelOrder calls of any users.
C1_StockNonNegative == \A p \in Products : stock[p] >= 0

\* C2: two createOrder requests of two users, for one unit each of a product
\* whose stock is 1, never both succeed.  With no order cancelled, two orders
\* of different users that each hold a unit of a product that started with
\* one unit are two such requests that both succeeded.
C2_NeverBothSucceed ==
    ~ \E p \in Products, oa \in orders, ob \in orders :
          /\ InitStock[p] = 1
          /\ \A o \in OrderIds : cancel_count[o] = 0
          /\ oa.user_id # ob.user_id
          /\ \E a \in order_items :
                 a.order_id = oa.id /\ a.product_id = p /\ a.quantity = 1
          /\ \E b \in order_items :
                 b.order_id = ob.id /\ b.product_id = p /\ b.quantity = 1

\* C3: createOrder is atomic: no committed state holds an order record
\* without its line items.
C3_OrderAtomic ==
    \A o \in orders : \E oi \in order_items : oi.order_id = o.id


\* C4: a createOrder that fails with ProductNotFound or InsufficientStock
\* fails in its validation pass, before its order is inserted, and neither
\* the failing step nor any step of the validation pass changes stock,
\* basket items, orders or order items.
C4_FailureBeforeMutation ==
    [][\A r \in Requests :
          /\ (/\ sess[r].op = "create_order"
              /\ sess'[r].pc = "idle"
              /\ reply'.status \in {"ProductNotFound", "InsufficientStock"})
             => (/\ sess[r].pc = "validate"
                 /\ sess[r].order_id = 0
                 /\ \A o \in orders' : o \in orders
                 /\ UNCHANGED db)
          /\ (sess'[r] # sess[r] /\ sess'[r].pc = "validate") => UNCHANGED db
      ]_vars

C4_Witness ==
    /\ reply.op = "create_order"
    /\ reply.status = "InsufficientStock"
    /\ \E b \in basket_items :
           b.user_id = reply.user_id /\ stock[b.product_id] < b.quantity

\* C5: createOrder of a user whose basket has no items fails with
\* EmptyBasket (it never goes on to validate or insert) and changes nothing.
C5_EmptyBasketFails ==
    [][/\ \A r \in Requests :
             (sess[r].pc = "idle" /\ sess'[r].op = "create_order")
             => \E b \in basket_items : b.user_id = sess'[r].user_id
       /\ (reply' # reply /\ reply'.op = "create_order"
                          /\ reply'.status = "EmptyBasket")
          => (/\ ~ \E b \in basket_items : b.user_id = reply'.user_id
              /\ UNCHANGED <<db, next_basket_item_id, sess>>)
      ]_vars

C5_Witness ==
    /\ reply.op = "create_order"
    /\ reply.status = "EmptyBasket"
    /\ \E b \in basket_items : b.user_id # reply.user_id

\* C6: the commit of a successful createOrder leaves none of the converted
\* basket items and takes exactly the ordered quantity off the stock of
\* every product.
C6_ExactDecrement ==
    [][\A r \in Requests :
          (sess[r].op = "create_order" /\ sess[r].pc = "commit"
                                       /\ sess'[r].pc = "idle")
          => (/\ \A k \in 1..Len(sess[r].basket_items) :
                     ~ \E b \in basket_items' : b.id = sess[r].basket_items[k].id
              /\ \A p \in Products :
                     stock'[p] = stock[p]
                         - UnitsOf({sess[r].new_items[k] :
                                      k \in 1..Len(sess[r].new_items)}, p))
      ]_vars

\* C7: the stored total of every order created by createOrder equals the
\* exact sum over its order items of quantity x price_at_purchase.
C7_TotalIsSumOfItems ==
    \A o \in orders :
        ~ Converting(o.id)
        => o.total = ValueOf({oi \in order_items : oi.order_id = o.id})

\* C8: cancelOrder of an order that createOrder has completed gives back to
\* every product exactly the quantity the order took, so that create
\* followed by cancel restores the stock.
C8_CancelRestores ==
    [][\A r \in Requests :
          (/\ sess[r].op = "cancel_order" /\ sess[r].pc = "commit"
           /\ sess'[r].pc = "idle"
           /\ sess[r].order_items # <<>>
           /\ {sess[r].order_items[k] : k \in 1..Len(sess[r].order_items)}
                  = {oi \in order_items : oi.order_id = sess[r].order_id})
          => \A p \in Products :
                 stock'[p] = stock[p]
                     + UnitsOf({oi \in order_items :
                                  oi.order_id = sess[r].order_id}, p)
      ]_vars

\* C9: cancelOrder on an order id that does not exist or is owned by
\* another user fails with NotFound (it never goes on to restore stock) and
\* changes no stock.
C9_CancelForeignNotFound ==
    [][/\ \A r \in Requests :
             (sess[r].pc = "idle" /\ sess'[r].op = "cancel_order")
             => \E o \in orders : /\ o.id = sess'[r].order_id
                                  /\ o.user_id = sess'[r].user_id
       /\ (reply' # reply /\ reply'.op = "cancel_order"
                          /\ reply'.status = "NotFound")
          => (/\ ~ \E o \in orders : /\ o.id = reply'.arg
                                     /\ o.user_id = reply'.user_id
              /\ UNCHANGED <<db, sess>>)
      ]_vars

C9_Witness ==
    /\ reply.op = "cancel_order"
    /\ reply.status = "NotFound"
    /\ \E o \in orders : o.id = reply.arg /\ o.user_id # reply.user_id
    /\ \E oi \in order_items : oi.order_id = reply.arg

\* C10: getOrder and listOrders change nothing; listOrders returns exactly
\* the caller's orders; getOrder returns the order asked for when the caller
\* owns it and NotFound otherwise.
C10_ReadsScopedToUser ==
    [][/\ (reply' # reply /\ reply'.op = "get_orders")
          => (/\ UNCHANGED <<db, next_basket_item_id, sess, cancel_count>>
              /\ reply'.body = {o \in orders : o.user_id = reply'.user_id})
       /\ (reply' # reply /\ reply'.op = "get_order")
          => (/\ UNCHANGED <<db, next_basket_item_id, sess, cancel_count>>
              /\ reply'.body = {o \in orders : /\ o.id = reply'.arg
                                               /\ o.user_id = reply'.user_id}
              /\ reply'.status = IF reply'.body = {} THEN "NotFound" ELSE "ok")
      ]_vars

C10_Witness ==
    /\ reply.op = "get_order"
    /\ reply.status = "NotFound"
    /\ \E o \in orders : o.id = reply.arg /\ o.user_id # reply.user_id
    /\ \E o \in orders : o.user_id = reply.user_id


\* the quantity of product p in the basket of user u
InBasket(u, p) ==
    UnitsOf({b \in basket_items : b.user_id = u /\ b.product_id = p}, p)

\* C11: with positive quantities in the basket and in the request, basket
\* add fails with InsufficientStock, the basket unchanged, whenever the
\* quantity already in the user's basket for the product plus the quantity
\* added exceeds the product's stock, and only then; otherwise it sums the
\* quantity into the existing item or inserts a new item; it never changes
\* the stock.
C11_AddChecksExistingPlusNew ==
    [][(\A b \in basket_items : b.quantity > 0)
       => /\ \A r \in Requests :
                /\ (/\ sess[r].pc = "idle" /\ sess'[r].op = "add_to_basket"
                    /\ sess'[r].item.quantity > 0)
                   => InBasket(sess'[r].user_id, sess'[r].item.product_id)
                          + sess'[r].item.quantity
                      <= stock[sess'[r].item.product_id]
                /\ (/\ sess[r].op = "add_to_basket" /\ sess'[r].pc = "idle"
                    /\ sess[r].item.quantity > 0 /\ reply'.status = "ok")
                   => (/\ UNCHANGED <<stock, orders, order_items>>
                       /\ UnitsOf({b \in basket_items' :
                                      /\ b.user_id = sess[r].user_id
                                      /\ b.product_id = sess[r].item.product_id},
                                  sess[r].item.product_id)
                              = InBasket(sess[r].user_id, sess[r].item.product_id)
                                + sess[r].item.quantity)
          /\ (reply' # reply /\ reply'.op = "add_to_basket"
                             /\ reply'.status = "InsufficientStock")
             => (/\ UNCHANGED db
                 /\ InBasket(reply'.user_id, reply'.arg) + reply'.quantity
                        > stock[reply'.arg])
      ]_vars

\* C12: under any interleaving of basket add requests there is at most one
\* basket item per (user, product) pair.
C12_OneItemPerUserAndProduct ==
    \A a \in basket_items, b \in basket_items :
        (a.user_id = b.user_id /\ a.product_id = b.product_id) => a = b

\* C13: every persisted basket item has a quantity above zero, whatever
\* integer quantities basket add and update are called with.
C13_BasketQuantityPositive == \A b \in basket_items : b.quantity > 0

\* C16: basket update fails with NotFound when the caller has no item of
\* that id and with InsufficientStock when the new quantity exceeds the
\* stock of the item's product, the basket unchanged in both cases, and
\* otherwise sets the item's quantity; remove fails with NotFound when the
\* caller has no item of that id and otherwise deletes that item only; clear
\* deletes exactly the caller's items; none of them changes stock or orders.
C16_UpdateRemoveClear ==
    [][/\ (reply' # reply /\ reply'.op = "update_basket_item")
          => LET owned == {b \in basket_items :
                             b.id = reply'.arg /\ b.user_id = reply'.user_id}
             IN /\ UNCHANGED <<stock, orders, order_items>>
                /\ IF owned = {}
                   THEN reply'.status = "NotFound" /\ UNCHANGED basket_items
                   ELSE \A b \in owned :
                            IF reply'.quantity > stock[b.product_id]
                            THEN /\ reply'.status = "InsufficientStock"
                                 /\ UNCHANGED basket_items
                            ELSE /\ reply'.status = "ok"
                                 /\ basket_items' = (basket_items \ {b}) \cup
                                        {[b EXCEPT !.quantity = reply'.quantity]}
       /\ (reply' # reply /\ reply'.op = "remove_basket_item")
          => LET owned == {b \in basket_items :
                             b.id = reply'.arg /\ b.user_id = reply'.user_id}
             IN /\ UNCHANGED <<stock, orders, order_items>>
                /\ reply'.status = IF owned = {} THEN "NotFound" ELSE "ok"
                /\ basket_items' = basket_items \ owned
       /\ (reply' # reply /\ reply'.op = "clear_basket")
          => (/\ UNCHANGED <<stock, orders, order_items>>
              /\ reply'.status = "ok"
              /\ basket_items' = {b \in basket_items : b.user_id # reply'.user_id})
      ]_vars

\* an update refused for a quantity above the stock, of an item of the
\* caller that stays as it was
C16_Witness ==
    /\ reply.op = "update_basket_item"
    /\ reply.status = "InsufficientStock"
    /\ \E b \in basket_items :
           /\ b.id = reply.arg /\ b.user_id = reply.user_id
           /\ reply.quantity > stock[b.product_id]
           /\ b.quantity # reply.quantity
    /\ \E b \in basket_items : b.user_id # reply.user_id


\* C14: after every request that authenticates, the users table has a row
\* for the caller: when there was none before the request, the request
\* leaves one with the placeholder name and email.
C14_AuthenticatedUserHasRecord ==
    [][(reply' # reply /\ reply'.status \notin {"Unauthenticated", "none"})
       => /\ \E user \in users' : user.id = reply'.user_id
          /\ (~ \E user \in users : user.id = reply'.user_id)
             => [id |-> reply'.user_id, name |-> "User",
                 email |-> PlaceholderEmail] \in users'
      ]_vars

\* C17: while the identity service answers the client's token with a status
\* other than 200, no request starts, every request ends with
\* Unauthenticated, and nothing but the steps of requests already in flight
\* changes stock, basket items, orders, order items or users.
C17_RejectedBeforeWorkflow ==
    [][(credential.status_code # 200 /\ credential' = credential)
       => /\ \A r \in Requests : sess[r].pc = "idle" => sess'[r] = sess[r]
          /\ (sess' = sess)
             => (/\ UNCHANGED <<db, next_basket_item_id, users, cancel_count>>
                 /\ reply' # reply => reply'.status = "Unauthenticated")
      ]_vars

\* a request refused with a basket, an order and stock there to be changed
C17_Witness ==
    /\ credential.status_code # 200
    /\ credential.user_id \in Users
    /\ reply.status = "Unauthenticated"
    /\ \E b \in basket_items : b.user_id = credential.user_id
    /\ \E o \in orders : o.user_id = credential.user_id

\* C20: get_current_user succeeds for every user id the identity service
\* vouches for and leaves exactly one users row for that id, the emails of
\* the users table staying unique.
C20_ProvisioningIsUpsert ==
    [][(reply' # reply /\ reply'.op = "get_current_user"
                       /\ reply'.status # "Unauthenticated")
       => /\ reply'.status = "ok"
          /\ Cardinality({user \in users' : user.id = reply'.user_id}) = 1
          /\ \A a \in users', b \in users' : a.email = b.email => a = b
      ]_vars


\* C15: an order row, once inserted, stays as it is (id, owner, total), and
\* so does every order item (quantity, price_at_purchase); order items are
\* added only by the last commit of the request that creates their order,
\* so that the items of an order are fixed from the end of its createOrder;
\* cancelOrder changes neither table, and getOrder and listOrders go on
\* giving the order to its owner.
C15_OrderImmutable ==
    [][/\ \A o \in orders : o \in orders'
       /\ \A oi \in order_items : oi \in order_items'
       /\ \A oi \in order_items' \ order_items :
              \E r \in Requests : /\ sess[r].op = "create_order"
                                  /\ sess[r].pc = "commit"
                                  /\ sess[r].order_id = oi.order_id
                                  /\ sess'[r].pc = "idle"
       /\ \A r \in Requests :
              (/\ sess'[r] # sess[r]
               /\ sess[r].op = "cancel_order" \/ sess'[r].op = "cancel_order")
              => UNCHANGED <<orders, order_items>>
       /\ (reply' # reply /\ reply'.op = "get_order")
          => \A o \in orders :
                 (o.id = reply'.arg /\ o.user_id = reply'.user_id)
                 => reply'.status = "ok" /\ reply'.body = {o}
       /\ (reply' # reply /\ reply'.op = "get_orders")
          => \A o \in orders : o.user_id = reply'.user_id => o \in reply'.body
      ]_vars

\* an order read by its owner, with its items, after it was cancelled
C15_Witness ==
    /\ reply.op = "get_order"
    /\ reply.status = "ok"
    /\ cancel_count[reply.arg] > 0
    /\ \E o \in orders : o.id = reply.arg /\ reply.body = {o}
    /\ \E oi \in order_items : oi.order_id = reply.arg

\* C18: the commit pass of createOrder works on what the validation pass
\* loaded: it does not fail on a basket item that is gone, and the product,
\* the quantity and the price of every order item it adds, and the quantity
\* it takes off the stock, are those of the basket item as validated, also
\* with basket updates and removals between the two passes.
C18_CommitUsesValidatedSnapshot ==
    [][\A r \in Requests :
          (/\ sess[r].op = "create_order" /\ sess[r].pc = "convert"
           /\ sess'[r] # sess[r])
          => /\ sess'[r].pc # "idle"
             /\ LET checked == sess[r].validated[sess[r].i]
                    added == sess'[r].new_items[Len(sess'[r].new_items)]
                IN /\ Len(sess'[r].new_items) = sess[r].i
                   /\ added.product_id = checked.product_id
                   /\ added.quantity = checked.quantity
                   /\ added.price_at_purchase = price[checked.product_id]
                   /\ sess'[r].products[checked.product_id]
                          = LoadProduct(sess[r].products,
                                        checked.product_id)[checked.product_id]
                            - checked.quantity
      ]_vars

\* C19: after one cancelOrder of an order has succeeded, a further
\* cancelOrder of the same order changes no product's stock.
C19_CancelledIsTerminal ==
    [][\A r \in Requests :
          (/\ sess[r].op = "cancel_order" /\ sess[r].pc = "commit"
           /\ sess'[r].pc = "idle"
           /\ cancel_count[sess[r].order_id] > 0)
          => UNCHANGED stock
      ]_vars


\* the user whose request takes the step: the user of the request in flight
\* that moves, or the caller of the handler that answers in one step (its
\* response is the reply after the step, be it equal to the one before)
ActedBy(a) ==
    \/ \E r \in Requests :
           /\ sess'[r] # sess[r]
           /\ a = IF sess[r].pc = "idle" THEN sess'[r].user_id ELSE sess[r].user_id
    \/ sess' = sess /\ reply'.user_id = a

\* C21: a step of a request of user a (a basket operation, createOrder,
\* cancelOrder, a read) leaves the basket items, the orders and the order
\* items of every other user as they were; a step that is no user's changes
\* no table.
C21_OtherUsersUntouched ==
    [][/\ \/ UNCHANGED <<basket_items, orders, order_items>>
          \/ \A a \in Users :
             ActedBy(a)
             => \A b \in Users \ {a} :
                    /\ {x \in basket_items' : x.user_id = b}
                           = {x \in basket_items : x.user_id = b}
                    /\ {o \in orders' : o.user_id = b}
                           = {o \in orders : o.user_id = b}
                    /\ {oi \in order_items' :
                            \E o \in orders' : o.id = oi.order_id /\ o.user_id = b}
                           = {oi \in order_items :
                                \E o \in orders : o.id = oi.order_id /\ o.user_id = b}
       /\ (~ \E a \in Users : ActedBy(a)) => UNCHANGED db
      ]_vars

\* a createOrder that went through, its order with its items, while another
\* user holds a basket item
C21_Witness ==
    /\ reply.op = "create_order"
    /\ reply.status = "ok"
    /\ \E o \in orders :
           /\ o.user_id = reply.user_id
           /\ \E oi \in order_items : oi.order_id = o.id
    /\ \E x \in basket_items : x.user_id # reply.user_id
    /\ \A x \in basket_items : x.user_id # reply.user_id


====
